---- MODULE Spec2Model ----
(***************************************************************************)
(* Model of the Enhanced Environmental Prediction API (enhanced_app.py):   *)
(* the two data sources, the three prediction models, the four prediction  *)
(* endpoints and the process environment (API key, calendar day).          *)
(*                                                                         *)
(* Numbers.  Python floats are modelled in fixed point: every real         *)
(* quantity (fractions, degrees, m/s, percent, kWh, scores) is an integer  *)
(* count of thousandths.  hour_of_day and the day of the year are plain    *)
(* integers.  Sines are tabulated to the nearest thousandth.               *)
(*                                                                         *)
(* JSON values.  A configuration value is a record [tag, v]: tag "num"     *)
(* (a JSON number v), "bad" (a JSON string, null, list or object: any      *)
(* value Python arithmetic rejects) or "absent" (the key is not there).    *)
(***************************************************************************)
EXTENDS Integers, Sequences, FiniteSets, TLC

VARIABLES
    apiKeyConfigured,  \* Config.OPENWEATHERMAP_API_KEY != 'your_api_key_here'
    yday,              \* datetime.now().timetuple().tm_yday
    last,              \* the last request served: what came in, what went out
    again              \* how a replay of the last request compared with it

vars == <<apiKeyConfigured, yday, last, again>>

(***************************************************************************)
(* Bounds of the model.                                                    *)
(***************************************************************************)
MaxDay == 2        \* the calendar runs over days 1..MaxDay
MaxNoise == 1      \* mock weather draws are numbered 0..MaxNoise

(***************************************************************************)
(* Fixed-point helpers.                                                    *)
(***************************************************************************)
Abs(x) == IF x < 0 THEN -x ELSE x

Max2(a, b) == IF a >= b THEN a ELSE b

Min2(a, b) == IF a <= b THEN a ELSE b

\* Floor of x / d for d > 0 (x may be negative).
FloorDiv(x, d) == x \div d

\* Python round(): to the nearest multiple of unit, ties to the even multiple.
RoundTo(x, unit) ==
    LET q == FloorDiv(x, unit)
        r == x - q * unit
    IN  IF 2 * r < unit THEN q * unit
        ELSE IF 2 * r > unit THEN (q + 1) * unit
        ELSE IF q % 2 = 0 THEN q * unit ELSE (q + 1) * unit

\* x * num / den, truncated toward zero, for den > 0.
Scale(x, num, den) ==
    IF x * num >= 0 THEN (x * num) \div den ELSE -((-(x * num)) \div den)

RECURSIVE DivDigits(_, _, _)
\* n further decimal digits of r / c, for 0 <= r < c.
DivDigits(r, c, n) ==
    IF n = 0 THEN 0
    ELSE LET d == (r * 10) \div c
             p == IF n = 1 THEN 1 ELSE IF n = 2 THEN 10 ELSE IF n = 3 THEN 100
                  ELSE IF n = 4 THEN 1000 ELSE 10000
         IN  d * p + DivDigits((r * 10) % c, c, n - 1)

\* a / c * 100 in thousandths, for c > 0: long division, five digits.
PercentOf(a, c) ==
    LET m == Abs(a)
        p == (m \div c) * 100000 + DivDigits(m % c, c, 5)
    IN  IF a < 0 THEN -p ELSE p

(***************************************************************************)
(* JSON values and request bodies.                                         *)
(***************************************************************************)
Num(n) == [tag |-> "num", v |-> n]
BadV == [tag |-> "bad", v |-> 0]
AbsentV == [tag |-> "absent", v |-> 0]

\* Python None, as returned by the two data sources.
NoneValue == [status |-> "none"]

ModelKeys ==
    {"concrete_coverage", "vegetation_coverage", "water_coverage", "tree_coverage",
     "building_density", "industrial_buildings", "residential_buildings",
     "solar_panel_coverage", "wind_turbine_density", "traffic_density",
     "latitude", "longitude", "hour_of_day", "base_temperature"}

\* "wind_speed" is sent by the test client and read by no model.
Keys == ModelKeys \cup {"wind_speed"}

EmptyMap == [k \in Keys |-> AbsentV]

\* dict.get(key, default)
CfgGet(cfg, k, default) == IF cfg[k].tag = "absent" THEN Num(default) ELSE cfg[k]

\* bool(data): None and {} are falsy, a non-empty list or mapping is truthy.
Truthy(data) ==
    \/ data.kind = "list"
    \/ data.kind = "map" /\ \E k \in Keys : data.map[k].tag # "absent"

\* The exception a model's try block catches.
Failure(msg) == [status |-> "error", error |-> msg]

(***************************************************************************)
(* Sine tables, thousandths.                                               *)
(***************************************************************************)
\* np.sin(2 * np.pi * hour / 24) * 2
DailyVariationTable ==
    <<0, 518, 1000, 1414, 1732, 1932, 2000, 1932, 1732, 1414, 1000, 518,
      0, -518, -1000, -1414, -1732, -1932, -2000, -1932, -1732, -1414, -1000, -518>>

DailyVariation(hour) == DailyVariationTable[(hour % 24) + 1]

\* np.sin(np.pi * (hour - 6) / 12) for hour in 6..18
SolarSineTable ==
    <<0, 259, 500, 707, 866, 966, 1000, 966, 866, 707, 500, 259, 0>>

\* np.sin(2 * np.pi * tm_yday / 365) * 10 for the first days of the year
SeasonalTable ==
    <<172, 344, 516, 688, 860, 1031, 1202, 1373, 1543, 1713, 1882, 2051>>

SeasonalFactor(day) == SeasonalTable[day]

(***************************************************************************)
(* The data sources.                                                       *)
(***************************************************************************)
\* get_nasa_lst_data(lat, lon, date=None): lat is the JSON value the caller
\* read from the configuration; abs() of a non-number raises, and the
\* function's own except clause turns that into None.
GetNasaLstData(lat, day) ==
    IF lat.tag # "num" THEN NoneValue
    ELSE LET seasonal_factor == SeasonalFactor(day)
             latitude_factor == Scale(60000 - Abs(lat.v), 15, 60)
             base_lst == 15000 + latitude_factor + seasonal_factor
         IN  [land_surface_temperature |-> base_lst,
              satellite_source |-> "VIIRS/Suomi NPP",
              acquisition_date |-> day,
              confidence |-> 750,
              status |-> "estimated"]

\* np.random.normal draws of the mock branch, one tuple per draw number.
Signed(n) == IF n % 2 = 1 THEN -n ELSE n

MockWeather(draw) ==
    [temperature |-> 22000 + 3000 * Signed(draw),
     humidity |-> 60000 + 10000 * Signed(draw),
     wind_speed |-> 5000 + 4000 * Signed(draw),
     pressure |-> 1013000 + 10000 * Signed(draw),
     status |-> "mock_data"]

\* What requests.get(url, params, timeout=10) can do.
PayloadFields == {"temp", "humidity", "speed", "pressure"}

FullPayload ==
    [f \in PayloadFields |->
        IF f = "temp" THEN Num(18000) ELSE IF f = "humidity" THEN Num(40000)
        ELSE IF f = "speed" THEN Num(6000) ELSE Num(1009000)]

PartialPayload == [FullPayload EXCEPT !["speed"] = AbsentV]

NoPayload == [f \in PayloadFields |-> AbsentV]

Response(code, payload) == [kind |-> "response", status_code |-> code, payload |-> payload]

\* requests.get raising: a timeout, a connection error, any RequestException.
\* The code has one except clause for all of them.
RequestException == [kind |-> "exception", status_code |-> 0, payload |-> NoPayload]

Upstreams ==
    {Response(200, FullPayload), Response(200, PartialPayload),
     Response(503, NoPayload), RequestException}

UpstreamFailed(ups) ==
    \/ ups.kind # "response"
    \/ ups.status_code # 200
    \/ \E f \in PayloadFields : ups.payload[f].tag = "absent"

\* The fetch with one retry after a failed call (the upstream answers the
\* retry as it answered the first call).
GetOpenweatherDataRetrying(keyOK, ups, draw) ==
    IF ~keyOK
    THEN [value |-> MockWeather(draw), calls |-> 0]
    ELSE IF UpstreamFailed(ups)
    THEN [value |-> NoneValue, calls |-> 2]
    ELSE [value |-> [temperature |-> ups.payload["temp"].v,
                     humidity |-> ups.payload["humidity"].v,
                     wind_speed |-> ups.payload["speed"].v,
                     pressure |-> ups.payload["pressure"].v,
                     status |-> "real_data"],
          calls |-> 1]

\* get_openweather_data(lat, lon): the weather observation or None, and the
\* number of requests.get calls it made.
GetOpenweatherData(keyOK, ups, draw) ==
    IF ~keyOK
    THEN [value |-> MockWeather(draw), calls |-> 0]
    ELSE IF ups.kind # "response"
    THEN [value |-> NoneValue, calls |-> 1]        \* except Exception
    ELSE IF ups.status_code = 200
    THEN IF \E f \in PayloadFields : ups.payload[f].tag = "absent"
         THEN [value |-> NoneValue, calls |-> 1]   \* KeyError, except Exception
         ELSE [value |-> [temperature |-> ups.payload["temp"].v,
                          humidity |-> ups.payload["humidity"].v,
                          wind_speed |-> ups.payload["speed"].v,
                          pressure |-> ups.payload["pressure"].v,
                          status |-> "real_data"],
               calls |-> 1]
    ELSE [value |-> NoneValue, calls |-> 1]

\* weather_data.get('wind_speed', 5.0) if weather_data else 5.0
WindSpeedOf(weather) == IF weather = NoneValue THEN 5000 ELSE weather.wind_speed

\* weather_data.get('humidity', 60.0) if weather_data else 60.0
HumidityOf(weather) == IF weather = NoneValue THEN 60000 ELSE weather.humidity

\* One call of a model: its result and the weather fetches it made;
\* raised is TRUE when an exception is on its way out instead of a result.
Outcome(result, fetches) == [result |-> result, fetches |-> fetches, raised |-> FALSE]

\* An exception raised inside a try block, after the given fetches.
Raise(msg, fetches) == [result |-> Failure(msg), fetches |-> fetches, raised |-> TRUE]

\* A model without its except clause: the exception leaves the model.
Uncaught(attempt) == attempt

\* except Exception as e: return {'error': str(e), 'status': 'error'}
Caught(attempt) == [attempt EXCEPT !.raised = FALSE]

AnyBad(cfg, keys) == \E k \in keys : cfg[k].tag = "bad"

(***************************************************************************)
(* predict_temperature_enhanced                                            *)
(***************************************************************************)
TemperatureKeys ==
    {"concrete_coverage", "building_density", "industrial_buildings",
     "tree_coverage", "vegetation_coverage", "water_coverage", "hour_of_day"}

\* The baseline taken from any observation returned, mock or real.
BaselineOfAnyWeather(cfg, weather, lst) ==
    IF weather # NoneValue
    THEN [base_temp |-> Num(weather.temperature), data_source |-> "openweathermap"]
    ELSE IF lst # NoneValue
    THEN [base_temp |-> Num(lst.land_surface_temperature),
          data_source |-> "nasa_viirs_estimated"]
    ELSE [base_temp |-> CfgGet(cfg, "base_temperature", 20000),
          data_source |-> "user_input"]

\* The baseline with the configuration's base_temperature preferred to the
\* surface estimate.
BaselineOfUserFirst(cfg, weather, lst) ==
    IF weather # NoneValue /\ weather.status = "real_data"
    THEN [base_temp |-> Num(weather.temperature), data_source |-> "openweathermap"]
    ELSE IF cfg["base_temperature"].tag # "absent"
    THEN [base_temp |-> cfg["base_temperature"], data_source |-> "user_input"]
    ELSE IF lst # NoneValue
    THEN [base_temp |-> Num(lst.land_surface_temperature),
          data_source |-> "nasa_viirs_estimated"]
    ELSE [base_temp |-> Num(20000), data_source |-> "user_input"]

\* The baseline branch: real weather, else the surface estimate, else the
\* configuration's base_temperature (default 20.0).
BaselineOf(cfg, weather, lst) ==
    IF weather # NoneValue /\ weather.status = "real_data"
    THEN [base_temp |-> Num(weather.temperature), data_source |-> "openweathermap"]
    ELSE IF lst # NoneValue
    THEN [base_temp |-> Num(lst.land_surface_temperature),
          data_source |-> "nasa_viirs_estimated"]
    ELSE [base_temp |-> CfgGet(cfg, "base_temperature", 20000),
          data_source |-> "user_input"]

UhiEffect(cfg) ==
      Scale(CfgGet(cfg, "concrete_coverage", 0).v, 35, 10)
    + Scale(CfgGet(cfg, "building_density", 0).v, 20, 10)
    + Scale(CfgGet(cfg, "industrial_buildings", 0).v, 40, 10)
    - Scale(CfgGet(cfg, "tree_coverage", 0).v, 20, 10)
    - Scale(CfgGet(cfg, "vegetation_coverage", 0).v, 10, 10)
    + Scale(CfgGet(cfg, "water_coverage", 0).v, -30, 10)

WindCooling(wind_speed) == IF wind_speed > 2000 THEN Scale(wind_speed, -3, 10) ELSE 0

\* The try block.
TemperatureTry(data, keyOK, ups, draw, day) ==
    IF data.kind # "map"
    THEN Raise("AttributeError", <<>>)      \* city_config.get raises
    ELSE
    LET cfg == data.map
        lat == CfgGet(cfg, "latitude", 40000)
        fetch == GetOpenweatherData(keyOK, ups, draw)
        weather_data == fetch.value
        lst_data == GetNasaLstData(lat, day)
        baseline == BaselineOf(cfg, weather_data, lst_data)
        base_temp == baseline.base_temp
        data_source == baseline.data_source
    IN  IF AnyBad(cfg, TemperatureKeys) \/ base_temp.tag = "bad"
        THEN Raise("TypeError", <<fetch>>)
        ELSE
        LET uhi_effect == UhiEffect(cfg)
            wind_speed == WindSpeedOf(weather_data)
            wind_cooling == WindCooling(wind_speed)
            hour == CfgGet(cfg, "hour_of_day", 12).v
            daily_variation == DailyVariation(hour)
            predicted_temp == base_temp.v + uhi_effect + wind_cooling + daily_variation
        IN  Outcome(
              [predicted_temperature |-> RoundTo(predicted_temp, 10),
               base_temperature |-> RoundTo(base_temp.v, 10),
               uhi_intensity |-> RoundTo(uhi_effect, 10),
               data_source |-> data_source,
               confidence |-> IF data_source = "openweathermap" THEN 900 ELSE 750,
               factors |-> [base_temperature |-> base_temp.v,
                            uhi_effect |-> uhi_effect,
                            wind_cooling |-> wind_cooling,
                            daily_variation |-> daily_variation],
               weather_conditions |-> weather_data,
               satellite_data |-> lst_data,
               status |-> "success"],
              <<fetch>>)

PredictTemperatureEnhanced(data, keyOK, ups, draw, day) ==
    Caught(TemperatureTry(data, keyOK, ups, draw, day))

(***************************************************************************)
(* predict_air_quality_enhanced                                            *)
(***************************************************************************)
AirQualityKeys ==
    {"industrial_buildings", "building_density", "traffic_density",
     "tree_coverage", "vegetation_coverage", "water_coverage"}

PollutionSources(cfg) ==
      CfgGet(cfg, "industrial_buildings", 0).v * 80
    + CfgGet(cfg, "building_density", 0).v * 20
    + CfgGet(cfg, "traffic_density", 0).v * 30

PollutionSinks(cfg) ==
      CfgGet(cfg, "tree_coverage", 0).v * 30
    + CfgGet(cfg, "vegetation_coverage", 0).v * 15
    + CfgGet(cfg, "water_coverage", 0).v * 10

\* The clamp without its upper limit: max(0, base_aqi + 20).
ClampAqiNoCeiling(base_aqi) == Max2(0, base_aqi + 20000)

\* aqi = max(0, min(300, base_aqi + 20))
ClampAqi(base_aqi) == Max2(0, Min2(300000, base_aqi + 20000))

AqiCategory(aqi) ==
    IF aqi <= 50000 THEN "Good"
    ELSE IF aqi <= 100000 THEN "Moderate"
    ELSE IF aqi <= 150000 THEN "Unhealthy for Sensitive Groups"
    ELSE "Unhealthy"

AirRecommendations(cfg, aqi, wind_speed) ==
      (IF aqi > 100000
       THEN <<"Increase green coverage", "Reduce industrial emissions">> ELSE <<>>)
    \o (IF CfgGet(cfg, "tree_coverage", 0).v < 300
        THEN <<"Plant more trees for air filtration">> ELSE <<>>)
    \o (IF wind_speed < 2000
        THEN <<"Consider urban design to improve air circulation">> ELSE <<>>)

\* The try block.
AirQualityTry(data, keyOK, ups, draw) ==
    IF data.kind # "map"
    THEN Raise("AttributeError", <<>>)
    ELSE
    LET cfg == data.map
        fetch == GetOpenweatherData(keyOK, ups, draw)
        weather_data == fetch.value
    IN  IF AnyBad(cfg, AirQualityKeys)
        THEN Raise("TypeError", <<fetch>>)
        ELSE
        LET pollution_sources == PollutionSources(cfg)
            pollution_sinks == PollutionSinks(cfg)
            wind_speed == WindSpeedOf(weather_data)
            humidity == HumidityOf(weather_data)
            wind_dispersion == wind_speed * (-3)
            humidity_effect == Scale(humidity - 50000, 2, 10)
            base_aqi == pollution_sources - pollution_sinks + wind_dispersion
                        + humidity_effect
            aqi == ClampAqi(base_aqi)
        IN  Outcome(
              [air_quality_index |-> RoundTo(aqi, 100),
               category |-> AqiCategory(aqi),
               pollution_sources |-> RoundTo(pollution_sources, 100),
               pollution_sinks |-> RoundTo(pollution_sinks, 100),
               wind_effect |-> RoundTo(wind_dispersion, 100),
               humidity_effect |-> RoundTo(humidity_effect, 100),
               recommendations |-> AirRecommendations(cfg, aqi, wind_speed),
               weather_conditions |-> weather_data,
               status |-> "success"],
              <<fetch>>)

PredictAirQualityEnhanced(data, keyOK, ups, draw) ==
    Caught(AirQualityTry(data, keyOK, ups, draw))

(***************************************************************************)
(* predict_energy_enhanced                                                 *)
(***************************************************************************)
EnergyKeys ==
    {"solar_panel_coverage", "wind_turbine_density", "building_density",
     "industrial_buildings", "residential_buildings", "hour_of_day"}

\* max(0, np.sin(np.pi * (hour - 6) / 12)) if 6 <= hour <= 18 else 0
SolarEfficiency(hour) ==
    IF 6 <= hour /\ hour <= 18 THEN Max2(0, SolarSineTable[hour - 5]) ELSE 0

\* min(1.0, (wind_speed / 12) ** 3) if wind_speed >= 3 else 0
WindEfficiency(wind_speed) ==
    IF wind_speed >= 3000
    THEN Min2(1000, (((wind_speed * wind_speed) \div 10000) * wind_speed) \div 172800)
    ELSE 0

\* The evening band drawn one hour too long: 18 <= hour <= 23.
ConsumptionMultiplierLateEvening(hour) ==
    IF 18 <= hour /\ hour <= 23 THEN 1300
    ELSE IF 6 <= hour /\ hour <= 9 THEN 1200
    ELSE IF 10 <= hour /\ hour <= 16 THEN 1100
    ELSE 800

\* The time-of-day bands of the consumption multiplier.
ConsumptionMultiplier(hour) ==
    IF 18 <= hour /\ hour <= 22 THEN 1300
    ELSE IF 6 <= hour /\ hour <= 9 THEN 1200
    ELSE IF 10 <= hour /\ hour <= 16 THEN 1100
    ELSE 800

BaseConsumption(cfg) ==
      CfgGet(cfg, "building_density", 0).v * 80
    + CfgGet(cfg, "industrial_buildings", 0).v * 200
    + CfgGet(cfg, "residential_buildings", 0).v * 60

\* sustainability_score = min(100, 0.6 * renewable + 0.3 * (50 if balance >= 0
\* else 0) + 0.1 * (100 - abs(balance) / max(1, demand) * 100))
SustainabilityScore(renewable_percentage, energy_balance, total_energy_demand) ==
    Min2(100000,
           Scale(renewable_percentage, 6, 10)
         + Scale(IF energy_balance >= 0 THEN 50000 ELSE 0, 3, 10)
         + Scale(100000 - PercentOf(Abs(energy_balance), Max2(1000, total_energy_demand)),
                 1, 10))

\* The try block.
EnergyTry(data, keyOK, ups, draw) ==
    IF data.kind # "map"
    THEN Raise("AttributeError", <<>>)
    ELSE
    LET cfg == data.map
        fetch == GetOpenweatherData(keyOK, ups, draw)
        weather_data == fetch.value
    IN  IF AnyBad(cfg, EnergyKeys)
        THEN Raise("TypeError", <<fetch>>)
        ELSE
        LET wind_speed == WindSpeedOf(weather_data)
            hour == CfgGet(cfg, "hour_of_day", 12).v
            solar_efficiency == SolarEfficiency(hour)
            wind_efficiency == WindEfficiency(wind_speed)
            solar_potential == CfgGet(cfg, "solar_panel_coverage", 0).v * 100
            wind_potential == CfgGet(cfg, "wind_turbine_density", 0).v * 150
            solar_production == Scale(solar_potential, solar_efficiency, 1000)
            wind_production == Scale(wind_potential, wind_efficiency, 1000)
            total_renewable_production == solar_production + wind_production
            base_consumption == BaseConsumption(cfg)
            consumption_multiplier == ConsumptionMultiplier(hour)
            total_consumption == Scale(base_consumption, consumption_multiplier \div 100, 10)
            energy_balance == total_renewable_production - total_consumption
            total_energy_demand == Abs(total_consumption)
            renewable_percentage ==
                IF total_energy_demand > 0
                THEN PercentOf(total_renewable_production, total_energy_demand)
                ELSE 0
            sustainability_score ==
                SustainabilityScore(renewable_percentage, energy_balance, total_energy_demand)
        IN  Outcome(
              [energy_balance |-> RoundTo(energy_balance, 100),
               total_production |-> RoundTo(total_renewable_production, 100),
               solar_production |-> RoundTo(solar_production, 100),
               wind_production |-> RoundTo(wind_production, 100),
               total_consumption |-> RoundTo(total_consumption, 100),
               renewable_percentage |-> RoundTo(renewable_percentage, 100),
               sustainability_score |-> RoundTo(sustainability_score, 100),
               solar_efficiency |-> RoundTo(solar_efficiency * 100, 100),
               wind_efficiency |-> RoundTo(wind_efficiency * 100, 100),
               consumption_multiplier |-> consumption_multiplier,
               weather_conditions |-> weather_data,
               status |-> "success"],
              <<fetch>>)

PredictEnergyEnhanced(data, keyOK, ups, draw) ==
    Caught(EnergyTry(data, keyOK, ups, draw))

(***************************************************************************)
(* The request-handling layer.                                             *)
(***************************************************************************)
HttpResponse(code, body, fetches) == [code |-> code, body |-> body, fetches |-> fetches]

\* The guard every prediction endpoint starts with: request.json raising
\* (a body that is not JSON) is caught by the endpoint's except clause; a
\* falsy body is answered 400.
Rejected(data) ==
    IF data.kind = "malformed"
    THEN HttpResponse(500, [error |-> "BadRequest"], <<>>)
    ELSE HttpResponse(400, [error |-> "No JSON data provided"], <<>>)

Admitted(data) == data.kind # "malformed" /\ Truthy(data)

\* return jsonify(result), or the except clause when the model raised.
Jsonify(outcome) ==
    IF outcome.raised
    THEN HttpResponse(500, [error |-> outcome.result.error], outcome.fetches)
    ELSE HttpResponse(200, outcome.result, outcome.fetches)

PredictTemperatureEndpoint(data, keyOK, ups, draw, day) ==
    IF ~Admitted(data) THEN Rejected(data)
    ELSE Jsonify(PredictTemperatureEnhanced(data, keyOK, ups, draw, day))

PredictAirQualityEndpoint(data, keyOK, ups, draw) ==
    IF ~Admitted(data) THEN Rejected(data)
    ELSE Jsonify(PredictAirQualityEnhanced(data, keyOK, ups, draw))

PredictEnergyEndpoint(data, keyOK, ups, draw) ==
    IF ~Admitted(data) THEN Rejected(data)
    ELSE Jsonify(PredictEnergyEnhanced(data, keyOK, ups, draw))

FallbackRecommendation == "Unable to generate recommendations due to prediction errors"

\* The status test with the energy result left out of the list.
AllSucceededButEnergy(temp_result, air_result, energy_result) ==
    /\ temp_result.status = "success"
    /\ air_result.status = "success"

\* all(r.get('status') == 'success' for r in [temp_result, air_result, energy_result])
AllSucceeded(temp_result, air_result, energy_result) ==
    /\ temp_result.status = "success"
    /\ air_result.status = "success"
    /\ energy_result.status = "success"

\* result.get(name, default) on a model's result.
Field(result, name, default) == IF name \in DOMAIN result THEN result[name] ELSE default

\* The recommendation strings of the complete assessment.
CriticalHeat == "Critical: Add trees and green infrastructure to reduce urban heat"
ModerateHeat == "Add more vegetation and cooling features"
CriticalAir == "Critical: Reduce pollution sources and improve air circulation"
CriticalRenewable == "Significantly increase renewable energy infrastructure"
ModerateRenewable == "Expand solar and wind energy systems"
UrbanCooling == "Implement comprehensive urban cooling strategy"

\* The air branch written as two separate ifs: above 150 the model's own
\* list is appended after the critical string.
ComprehensiveRecommendationsAirTwice(temp_result, air_result, energy_result) ==
    LET predicted_temp == Field(temp_result, "predicted_temperature", 25000)
        aqi == Field(air_result, "air_quality_index", 0)
        renewable_percentage == Field(energy_result, "renewable_percentage", 0)
        uhi_intensity == Field(temp_result, "uhi_intensity", 0)
    IN    (IF predicted_temp > 27000 THEN <<CriticalHeat>>
           ELSE IF predicted_temp > 25000 THEN <<ModerateHeat>>
           ELSE <<>>)
       \o (IF aqi > 150000 THEN <<CriticalAir>> ELSE <<>>)
       \o (IF aqi > 100000 THEN Field(air_result, "recommendations", <<>>) ELSE <<>>)
       \o (IF renewable_percentage < 30000 THEN <<CriticalRenewable>>
           ELSE IF renewable_percentage < 60000 THEN <<ModerateRenewable>>
           ELSE <<>>)
       \o (IF uhi_intensity > 4000 THEN <<UrbanCooling>> ELSE <<>>)

\* "Generate comprehensive recommendations": the list before list(set(...)).
ComprehensiveRecommendations(temp_result, air_result, energy_result) ==
    LET predicted_temp == Field(temp_result, "predicted_temperature", 25000)
        aqi == Field(air_result, "air_quality_index", 0)
        renewable_percentage == Field(energy_result, "renewable_percentage", 0)
        uhi_intensity == Field(temp_result, "uhi_intensity", 0)
    IN    (IF predicted_temp > 27000 THEN <<CriticalHeat>>
           ELSE IF predicted_temp > 25000 THEN <<ModerateHeat>>
           ELSE <<>>)
       \o (IF aqi > 150000 THEN <<CriticalAir>>
           ELSE IF aqi > 100000 THEN Field(air_result, "recommendations", <<>>)
           ELSE <<>>)
       \o (IF renewable_percentage < 30000 THEN <<CriticalRenewable>>
           ELSE IF renewable_percentage < 60000 THEN <<ModerateRenewable>>
           ELSE <<>>)
       \o (IF uhi_intensity > 4000 THEN <<UrbanCooling>> ELSE <<>>)

\* The success branch of the complete assessment: scores and recommendations.
Aggregate(temp_result, air_result, energy_result) ==
    LET predicted_temp == Field(temp_result, "predicted_temperature", 25000)
        temp_deviation == Abs(predicted_temp - 21500)
        temp_score == Max2(0, 100000 - temp_deviation * 8)
        aqi == Field(air_result, "air_quality_index", 0)
        air_score == Max2(0, 100000 - Scale(aqi, 15, 10))
        energy_score == Field(energy_result, "sustainability_score", 0)
        uhi_intensity == Field(temp_result, "uhi_intensity", 0)
        renewable_percentage == Field(energy_result, "renewable_percentage", 0)
        uhi_penalty == Max2(0, uhi_intensity - 2000) * 10
        weighted == Scale(temp_score, 30, 100) + Scale(air_score, 35, 100)
                    + Scale(energy_score, 35, 100) - uhi_penalty
        overall_score == Max2(0, Min2(100000, weighted))
        recommendations ==
            ComprehensiveRecommendations(temp_result, air_result, energy_result)
    IN  [overall_score |-> overall_score, temp_score |-> temp_score,
         air_score |-> air_score, energy_score |-> energy_score,
         recommendations |-> recommendations]

\* The else branch: temp_score = air_score = energy_score = overall_score = 0.
FallbackScoring ==
    [overall_score |-> 0, temp_score |-> 0, air_score |-> 0, energy_score |-> 0,
     recommendations |-> <<FallbackRecommendation>>]

\* list(set(recommendations))
ListOfSet(seq) == {seq[i] : i \in DOMAIN seq}

CompleteBody(temp_result, air_result, energy_result, keyOK) ==
    LET s == IF AllSucceeded(temp_result, air_result, energy_result)
             THEN Aggregate(temp_result, air_result, energy_result)
             ELSE FallbackScoring
    IN  [temperature |-> temp_result,
         air_quality |-> air_result,
         energy |-> energy_result,
         scores |-> [overall_score |-> RoundTo(s.overall_score, 100),
                     temperature_score |-> RoundTo(s.temp_score, 100),
                     air_quality_score |-> RoundTo(s.air_score, 100),
                     energy_score |-> RoundTo(s.energy_score, 100)],
         recommendations |-> ListOfSet(s.recommendations),
         data_sources |-> [weather_api |-> IF keyOK THEN "openweathermap" ELSE "mock",
                           satellite_data |-> "nasa_viirs_estimated",
                           prediction_model |-> "research_based_algorithms"],
         status |-> "success"]

\* ups and draw are sequences of three: one weather fetch per model.
PredictCompleteEnhancedEndpoint(data, keyOK, ups, draw, day) ==
    IF ~Admitted(data) THEN Rejected(data)
    ELSE
    LET t == PredictTemperatureEnhanced(data, keyOK, ups[1], draw[1], day)
        a == PredictAirQualityEnhanced(data, keyOK, ups[2], draw[2])
        e == PredictEnergyEnhanced(data, keyOK, ups[3], draw[3])
        fetches == t.fetches \o a.fetches \o e.fetches
    IN  IF t.raised THEN HttpResponse(500, [error |-> t.result.error], t.fetches)
        ELSE IF a.raised
        THEN HttpResponse(500, [error |-> a.result.error], t.fetches \o a.fetches)
        ELSE IF e.raised THEN HttpResponse(500, [error |-> e.result.error], fetches)
        ELSE HttpResponse(200, CompleteBody(t.result, a.result, e.result, keyOK), fetches)

(***************************************************************************)
(* Request bodies the clients send.                                        *)
(***************************************************************************)
MapBody(cfg) == [kind |-> "map", map |-> cfg]

\* JSON null (or no body), a non-empty JSON list, a body that is not JSON.
NullBody == [kind |-> "none", map |-> EmptyMap]
ListBody == [kind |-> "list", map |-> EmptyMap]
MalformedBody == [kind |-> "malformed", map |-> EmptyMap]

Perturb(cfg, k, v) == [cfg EXCEPT ![k] = v]

\* test_city of the test client.
TestCity ==
    [k \in Keys |->
        IF k = "concrete_coverage" THEN Num(400)
        ELSE IF k = "vegetation_coverage" THEN Num(300)
        ELSE IF k = "water_coverage" THEN Num(100)
        ELSE IF k = "building_density" THEN Num(500)
        ELSE IF k = "industrial_buildings" THEN Num(200)
        ELSE IF k = "tree_coverage" THEN Num(250)
        ELSE IF k = "base_temperature" THEN Num(22000)
        ELSE IF k = "hour_of_day" THEN Num(14)
        ELSE IF k = "wind_speed" THEN Num(5000)
        ELSE IF k = "solar_panel_coverage" THEN Num(150)
        ELSE IF k = "wind_turbine_density" THEN Num(50)
        ELSE AbsentV]

\* A mapping none of whose keys a model reads.
SparseCity == Perturb(EmptyMap, "wind_speed", Num(5000))

\* Fractions far above 1.
ExtremeCity ==
    Perturb(Perturb(Perturb(TestCity, "industrial_buildings", Num(100000)),
                    "traffic_density", Num(3000)), "latitude", Num(40713))

\* Negative fractions.
NegativeCity ==
    [k \in Keys |->
        IF k \in {"industrial_buildings", "building_density", "traffic_density",
                  "solar_panel_coverage", "residential_buildings"}
        THEN Num(-1000)
        ELSE IF k \in {"tree_coverage", "concrete_coverage"} THEN Num(-500)
        ELSE IF k = "hour_of_day" THEN Num(20)
        ELSE AbsentV]

\* Solar panels and nothing that consumes.
SolarCity ==
    Perturb(Perturb(EmptyMap, "solar_panel_coverage", Num(150)), "hour_of_day", Num(12))

\* A green city with a large renewable surplus.
GreenCity ==
    [k \in Keys |->
        IF k \in {"solar_panel_coverage", "tree_coverage", "vegetation_coverage"}
        THEN Num(600)
        ELSE IF k = "residential_buildings" THEN Num(200)
        ELSE IF k = "hour_of_day" THEN Num(11)
        ELSE IF k = "latitude" THEN Num(-33900)
        ELSE AbsentV]

\* Dense, industrial and congested, in mid-morning.
SmogCity ==
    Perturb(Perturb(Perturb(Perturb(TestCity, "industrial_buildings", Num(1000)),
                            "building_density", Num(1000)),
                    "traffic_density", Num(1000)), "hour_of_day", Num(10))

BaseCities ==
    {TestCity, SparseCity, ExtremeCity, NegativeCity, SolarCity, GreenCity, SmogCity}

CityConfigs ==
    BaseCities
    \cup {EmptyMap}
    \cup {Perturb(TestCity, k, v) : k \in ModelKeys, v \in {BadV, AbsentV}}
    \cup {Perturb(Perturb(TestCity, "latitude", BadV), "base_temperature", v) :
             v \in {BadV, AbsentV}}
    \cup {Perturb(TestCity, "hour_of_day", Num(h)) : h \in 0..23}

Bodies == {MapBody(c) : c \in CityConfigs} \cup {NullBody, ListBody, MalformedBody}

Draws == 0..MaxNoise

(***************************************************************************)
(* The state machine: requests arrive one at a time; the calendar moves.   *)
(***************************************************************************)
\* The endpoint `endpoint` run on `data` with the given upstream answers
\* (ups), random draws (draw) and calendar day.
Serve(endpoint, data, keyOK, ups, draw, day) ==
    IF endpoint = "temperature"
    THEN PredictTemperatureEndpoint(data, keyOK, ups[1], draw[1], day)
    ELSE IF endpoint = "air_quality"
    THEN PredictAirQualityEndpoint(data, keyOK, ups[1], draw[1])
    ELSE IF endpoint = "energy"
    THEN PredictEnergyEndpoint(data, keyOK, ups[1], draw[1])
    ELSE PredictCompleteEnhancedEndpoint(data, keyOK, ups, draw, day)

Served(endpoint, data, ups, draw, day, response) ==
    [endpoint |-> endpoint, data |-> data, ups |-> ups, draw |-> draw,
     day |-> day, response |-> response]

NoRequest ==
    Served("none", NullBody, <<>>, <<>>, 0, HttpResponse(0, [error |-> "none"], <<>>))

\* again is "none" until the request is replayed, then "same" or "differs".
NoReplay == "none"

Compare(first, second) == IF first = second THEN "same" ELSE "differs"

\* In mock mode no upstream is contacted: the upstream answer is immaterial.
UpstreamChoices(keyOK) == IF keyOK THEN Upstreams ELSE {RequestException}

\* Without the mock branch nothing is drawn: the draw is immaterial.
DrawChoices(keyOK) == IF keyOK THEN {0} ELSE Draws

Init ==
    /\ apiKeyConfigured \in BOOLEAN
    /\ yday \in 1..MaxDay
    /\ last = NoRequest
    /\ again = NoReplay

\* last and again observe one request at a time (every entity of the
\* program is request-scoped): a request is taken up once the observation
\* of the previous one is closed.
PredictTemperatureRequest ==
    /\ last.endpoint = "none"
    /\ \E data \in Bodies, u \in UpstreamChoices(apiKeyConfigured),
          d \in DrawChoices(apiKeyConfigured) :
          last' = Served("temperature", data, <<u>>, <<d>>, yday,
                         PredictTemperatureEndpoint(data, apiKeyConfigured, u, d, yday))
    /\ again' = NoReplay
    /\ UNCHANGED <<apiKeyConfigured, yday>>

PredictAirQualityRequest ==
    /\ last.endpoint = "none"
    /\ \E data \in Bodies, u \in UpstreamChoices(apiKeyConfigured),
          d \in DrawChoices(apiKeyConfigured) :
          last' = Served("air_quality", data, <<u>>, <<d>>, yday,
                         PredictAirQualityEndpoint(data, apiKeyConfigured, u, d))
    /\ again' = NoReplay
    /\ UNCHANGED <<apiKeyConfigured, yday>>

PredictEnergyRequest ==
    /\ last.endpoint = "none"
    /\ \E data \in Bodies, u \in UpstreamChoices(apiKeyConfigured),
          d \in DrawChoices(apiKeyConfigured) :
          last' = Served("energy", data, <<u>>, <<d>>, yday,
                         PredictEnergyEndpoint(data, apiKeyConfigured, u, d))
    /\ again' = NoReplay
    /\ UNCHANGED <<apiKeyConfigured, yday>>

PredictCompleteRequest ==
    /\ last.endpoint = "none"
    /\ \E data \in Bodies,
          u \in [1..3 -> UpstreamChoices(apiKeyConfigured)],
          d \in [1..3 -> DrawChoices(apiKeyConfigured)] :
          last' = Served("complete", data, u, d, yday,
                         PredictCompleteEnhancedEndpoint(data, apiKeyConfigured, u, d, yday))
    /\ again' = NoReplay
    /\ UNCHANGED <<apiKeyConfigured, yday>>

\* The same request again: same body, same upstream answers; the random
\* draws and the calendar day are whatever they are at the second call.
Replay ==
    /\ last.endpoint # "none"
    /\ again = NoReplay
    /\ \E d \in [DOMAIN last.draw -> DrawChoices(apiKeyConfigured)] :
          again' = Compare(last.response,
                           Serve(last.endpoint, last.data, apiKeyConfigured,
                                 last.ups, d, yday))
    /\ UNCHANGED <<apiKeyConfigured, yday, last>>

\* The response has been delivered; nothing of the request is kept.
Close ==
    /\ last.endpoint # "none"
    /\ last' = NoRequest
    /\ again' = NoReplay
    /\ UNCHANGED <<apiKeyConfigured, yday>>

\* Midnight passes.
AdvanceDay ==
    /\ yday < MaxDay
    /\ yday' = yday + 1
    /\ UNCHANGED <<apiKeyConfigured, last, again>>

Next ==
    \/ PredictTemperatureRequest
    \/ PredictAirQualityRequest
    \/ PredictEnergyRequest
    \/ PredictCompleteRequest
    \/ Replay
    \/ Close
    \/ AdvanceDay

Spec == Init /\ [][Next]_vars

(***************************************************************************)
(* What the properties below read off the observed request.                *)
(***************************************************************************)
Answered == last.endpoint # "none"

\* The request reached the models and the endpoint answered with its result.
Delivered == Answered /\ last.response.code = 200

IsMap == last.data.kind = "map"

Complete == Delivered /\ last.endpoint = "complete"

\* The three models' results inside the answer, where the endpoint ran them.
HasTemperature == Delivered /\ last.endpoint \in {"temperature", "complete"}
HasAirQuality == Delivered /\ last.endpoint \in {"air_quality", "complete"}
HasEnergy == Delivered /\ last.endpoint \in {"energy", "complete"}

TemperatureResult ==
    IF last.endpoint = "complete" THEN last.response.body.temperature
    ELSE last.response.body

AirQualityResult ==
    IF last.endpoint = "complete" THEN last.response.body.air_quality
    ELSE last.response.body

EnergyResult ==
    IF last.endpoint = "complete" THEN last.response.body.energy
    ELSE last.response.body

\* The position, among the request's weather fetches, of a model's fetch.
Slot(model) ==
    IF last.endpoint # "complete" THEN 1
    ELSE IF model = "temperature" THEN 1 ELSE IF model = "air_quality" THEN 2 ELSE 3

(***************************************************************************)
(* Properties.                                                             *)
(***************************************************************************)

\* C1: in the complete assessment, whenever at least one of the three model
\* results has a status other than success, the overall score and the three
\* sub-scores are exactly 0 and the recommendations are exactly the single
\* fallback message.
C1_FallbackOnAnyFailure ==
    (Complete /\ (\/ TemperatureResult.status # "success"
                  \/ AirQualityResult.status # "success"
                  \/ EnergyResult.status # "success"))
    => /\ last.response.body.scores.overall_score = 0
       /\ last.response.body.scores.temperature_score = 0
       /\ last.response.body.scores.air_quality_score = 0
       /\ last.response.body.scores.energy_score = 0
       /\ last.response.body.recommendations = {FallbackRecommendation}

\* C1 witness: a complete assessment in which only the energy model failed,
\* answered with zero scores and the fallback message.
C1_Witness ==
    /\ Complete
    /\ TemperatureResult.status = "success"
    /\ AirQualityResult.status = "success"
    /\ EnergyResult.status = "error"
    /\ last.response.body.scores.overall_score = 0
    /\ last.response.body.recommendations = {FallbackRecommendation}

\* C2: whenever predict_energy_enhanced succeeds, the reported
\* sustainability_score lies in [0, 100].
C2_SustainabilityInRange ==
    (HasEnergy /\ EnergyResult.status = "success")
    => /\ EnergyResult.sustainability_score >= 0
       /\ EnergyResult.sustainability_score <= 100000

\* C3: whenever predict_air_quality_enhanced succeeds, the reported
\* air_quality_index lies in [0, 300], whatever the fractions.
C3_AqiInRange ==
    (HasAirQuality /\ AirQualityResult.status = "success")
    => /\ AirQualityResult.air_quality_index >= 0
       /\ AirQualityResult.air_quality_index <= 300000

\* C3 witness: industrial_buildings = 100 drives the sources to 8000 and
\* more, and the index reported is 300.
C3_Witness ==
    /\ HasAirQuality
    /\ IsMap
    /\ last.data.map["industrial_buildings"] = Num(100000)
    /\ AirQualityResult.status = "success"
    /\ AirQualityResult.pollution_sources > 300000
    /\ AirQualityResult.air_quality_index = 300000

(***************************************************************************)
(* What the environment handed to a model of the observed request.         *)
(***************************************************************************)
\* The weather fetch of `model` came back with a real observation.
RealWeather(model) ==
    apiKeyConfigured /\ ~UpstreamFailed(last.ups[Slot(model)])

\* The weather fetch of `model` came back with None.
WeatherUnavailable(model) ==
    apiKeyConfigured /\ UpstreamFailed(last.ups[Slot(model)])

\* get_nasa_lst_data returned an estimate: the latitude it was given is a number.
SurfaceEstimated == IsMap /\ last.data.map["latitude"].tag # "bad"

\* No value of the configuration is of a non-numeric type.
NumericConfig == IsMap /\ ~AnyBad(last.data.map, Keys)

\* C4: the baseline is the weather observation's temperature iff the
\* observation is real_data (never a mock_data one); otherwise the surface
\* estimate's land_surface_temperature if there is one; otherwise the
\* configuration's base_temperature, or 20.0.  data_source names the branch
\* and confidence is 0.90 exactly for the real-weather branch, else 0.75.
C4_BaselinePriority ==
    (HasTemperature /\ TemperatureResult.status = "success")
    => LET r == TemperatureResult
       IN  IF RealWeather("temperature")
           THEN /\ r.data_source = "openweathermap"
                /\ r.factors.base_temperature = r.weather_conditions.temperature
                /\ r.weather_conditions.status = "real_data"
                /\ r.confidence = 900
           ELSE IF SurfaceEstimated
           THEN /\ r.data_source = "nasa_viirs_estimated"
                /\ r.factors.base_temperature = r.satellite_data.land_surface_temperature
                /\ r.confidence = 750
           ELSE /\ r.data_source = "user_input"
                /\ r.factors.base_temperature
                      = CfgGet(last.data.map, "base_temperature", 20000).v
                /\ r.confidence = 750

\* C4 witness: a mock_data observation was returned and the baseline is the
\* surface estimate, not the observation's temperature.
C4_Witness ==
    /\ HasTemperature
    /\ TemperatureResult.status = "success"
    /\ TemperatureResult.weather_conditions.status = "mock_data"
    /\ TemperatureResult.data_source = "nasa_viirs_estimated"
    /\ TemperatureResult.factors.base_temperature
          # TemperatureResult.weather_conditions.temperature
    /\ TemperatureResult.confidence = 750

\* C5 as stated: when the weather source is unavailable and the configuration
\* supplies base_temperature, the reported baseline equals the supplied
\* base_temperature.
C5_SuppliedBaselineUsed ==
    (/\ HasTemperature
     /\ TemperatureResult.status = "success"
     /\ WeatherUnavailable("temperature")
     /\ last.data.map["base_temperature"].tag = "num")
    => TemperatureResult.base_temperature
          = RoundTo(last.data.map["base_temperature"].v, 10)

\* C5 amended: with the weather source unavailable, the scenario
\* configuration yields uhi_intensity 2.1, wind cooling -1.5 and a predicted
\* temperature of baseline + UHI + wind cooling + diurnal term (to two
\* decimals), where the baseline is the surface estimate's temperature; the
\* supplied base_temperature is the baseline only for a configuration for
\* which no surface estimate could be made.
C5_ScenarioWithoutWeather ==
    (/\ HasTemperature
     /\ TemperatureResult.status = "success"
     /\ WeatherUnavailable("temperature")
     /\ last.data.map["base_temperature"].tag = "num")
    => LET r == TemperatureResult
       IN  /\ r.base_temperature
                = IF SurfaceEstimated
                  THEN RoundTo(r.satellite_data.land_surface_temperature, 10)
                  ELSE RoundTo(last.data.map["base_temperature"].v, 10)
           /\ r.predicted_temperature
                = RoundTo(r.factors.base_temperature + r.factors.uhi_effect
                          + r.factors.wind_cooling + r.factors.daily_variation, 10)
           /\ r.factors.wind_cooling = -1500
           /\ (last.data = MapBody(TestCity)
               => (/\ r.uhi_intensity = 2100
                   /\ r.data_source = "nasa_viirs_estimated"
                   /\ r.base_temperature
                         = RoundTo(20000 + SeasonalFactor(last.day), 10)
                   /\ r.factors.daily_variation = -1000))

\* C5 witness: the scenario configuration served with the weather source
\* unavailable.
C5_Witness ==
    /\ HasTemperature
    /\ last.data = MapBody(TestCity)
    /\ WeatherUnavailable("temperature")
    /\ TemperatureResult.status = "success"
    /\ TemperatureResult.uhi_intensity = 2100
    /\ TemperatureResult.base_temperature # 22000

\* The models the observed endpoint runs, and the result of each.
ModelsRun ==
    IF last.endpoint = "complete" THEN {"temperature", "air_quality", "energy"}
    ELSE {last.endpoint}

ResultOf(model) ==
    IF model = "temperature" THEN TemperatureResult
    ELSE IF model = "air_quality" THEN AirQualityResult
    ELSE EnergyResult

\* The fallback values a model reports when its weather fetch gave None:
\* wind_speed 5.0 (cooling -1.5, dispersion -15, turbine efficiency 7.2 %),
\* humidity 60.0 (effect +2), and a baseline that is not the weather's.
OnFallbackPath(model) ==
    LET r == ResultOf(model)
    IN  /\ r.status = "success"
        /\ r.weather_conditions = NoneValue
        /\ model = "temperature"
           => (/\ r.factors.wind_cooling = -1500
               /\ IF SurfaceEstimated
                  THEN /\ r.data_source = "nasa_viirs_estimated"
                       /\ r.factors.base_temperature
                             = r.satellite_data.land_surface_temperature
                  ELSE /\ r.data_source = "user_input"
                       /\ r.factors.base_temperature
                             = CfgGet(last.data.map, "base_temperature", 20000).v)
        /\ model = "air_quality"
           => (r.wind_effect = -15000 /\ r.humidity_effect = 2000)
        /\ model = "energy" => r.wind_efficiency = 7200

\* C6: whatever way the weather fetch fails (non-200 answer, timeout or
\* network exception, payload missing a field), get_openweather_data returns
\* None after exactly one outbound call, raising nothing, and a model given
\* a numeric configuration still returns Success, on its fallback path.
C6_UpstreamFailureDegrades ==
    (Answered /\ Admitted(last.data) /\ IsMap)
    => \A m \in ModelsRun :
          WeatherUnavailable(m)
          => /\ last.response.code = 200
             /\ Len(last.response.fetches) = Cardinality(ModelsRun)
             /\ last.response.fetches[Slot(m)].value = NoneValue
             /\ last.response.fetches[Slot(m)].calls = 1
             /\ NumericConfig => OnFallbackPath(m)

\* C6 witness: a complete assessment whose three fetches failed in three
\* different ways, with all three models succeeding.
C6_Witness ==
    /\ Complete
    /\ apiKeyConfigured
    /\ NumericConfig
    /\ last.ups[1] = Response(503, NoPayload)
    /\ last.ups[2] = RequestException
    /\ last.ups[3] = Response(200, PartialPayload)
    /\ \A m \in ModelsRun : ResultOf(m).status = "success"
    /\ \A i \in 1..3 : last.response.fetches[i] = [value |-> NoneValue, calls |-> 1]

\* A fault arises inside the model: the configuration is not a mapping, or a
\* value the model computes with is not a number.
Faulty(model) ==
    \/ ~IsMap
    \/ /\ model = "temperature"
       /\ \/ AnyBad(last.data.map, {"concrete_coverage", "building_density",
                                    "industrial_buildings", "tree_coverage",
                                    "vegetation_coverage", "water_coverage",
                                    "hour_of_day"})
          \/ /\ ~RealWeather("temperature")
             /\ ~SurfaceEstimated
             /\ last.data.map["base_temperature"].tag = "bad"
    \/ /\ model = "air_quality"
       /\ AnyBad(last.data.map, {"industrial_buildings", "building_density",
                                 "traffic_density", "tree_coverage",
                                 "vegetation_coverage", "water_coverage"})
    \/ /\ model = "energy"
       /\ AnyBad(last.data.map, {"solar_panel_coverage", "wind_turbine_density",
                                 "building_density", "industrial_buildings",
                                 "residential_buildings", "hour_of_day"})

\* C7: a fault raised inside one model is caught at that model's boundary:
\* the model returns status=error with the error message and nothing reaches
\* the caller's own except clause; in the complete assessment the other
\* models are still evaluated and succeed or fail on their own inputs only.
C7_FaultsContained ==
    (Answered /\ Admitted(last.data))
    => /\ last.response.code = 200
       /\ \A m \in ModelsRun :
             IF Faulty(m)
             THEN /\ ResultOf(m).status = "error"
                  /\ DOMAIN ResultOf(m) = {"error", "status"}
                  /\ ResultOf(m).error \in {"TypeError", "AttributeError"}
             ELSE /\ ResultOf(m).status = "success"
                  /\ "error" \notin DOMAIN ResultOf(m)

\* C7 witness: a complete assessment in which the temperature model alone
\* met a non-numeric value, and the other two returned their results.
C7_Witness ==
    /\ Complete
    /\ Faulty("temperature")
    /\ ~Faulty("air_quality")
    /\ ~Faulty("energy")
    /\ TemperatureResult.status = "error"
    /\ AirQualityResult.status = "success"
    /\ EnergyResult.status = "success"

\* C8: whenever a model the response depends on returned status=error, the
\* response is a non-success response carrying an error field: neither an
\* HTTP success code nor a top-level status 'success'.
C8_FailureIsNonSuccess ==
    (Answered /\ Admitted(last.data) /\ \E m \in ModelsRun : Faulty(m))
    => /\ last.response.code # 200
       /\ "error" \in DOMAIN last.response.body
       /\ "status" \in DOMAIN last.response.body
          => last.response.body.status # "success"

\* C9: every prediction operation accepts a configuration mapping with any
\* subset of its keys absent and returns the model result computed from the
\* defaults.
C9_AnySubsetAbsent ==
    (Answered /\ NumericConfig)
    => /\ last.response.code = 200
       /\ \A m \in ModelsRun : ResultOf(m).status = "success"

\* C10: a second call of the same operation with the same configuration and
\* the same upstream answers returns the same result as the first.
C10_Deterministic == again # "differs"

\* The four scores of a complete assessment.
Scores == last.response.body.scores

InRange(score) == 0 <= score /\ score <= 100000

\* C11: in every complete-assessment response, on the all-success path and
\* on the fallback path, the overall score and each of the three sub-scores
\* (temperature_score, air_quality_score, energy_score) lies in [0, 100].
C11_ScoresInRange ==
    Complete => /\ InRange(Scores.overall_score)
                /\ InRange(Scores.temperature_score)
                /\ InRange(Scores.air_quality_score)
                /\ InRange(Scores.energy_score)

\* The complete assessment took the all-success branch.
AllThreeSucceeded ==
    /\ Complete
    /\ TemperatureResult.status = "success"
    /\ AirQualityResult.status = "success"
    /\ EnergyResult.status = "success"

\* The entries of a list.
Entries(seq) == {seq[i] : i \in DOMAIN seq}

\* What the reported results call for, one group per threshold rule.
HeatAdvice ==
    IF TemperatureResult.predicted_temperature > 27000 THEN {CriticalHeat}
    ELSE IF TemperatureResult.predicted_temperature > 25000 THEN {ModerateHeat}
    ELSE {}

AirAdvice ==
    IF AirQualityResult.air_quality_index > 150000 THEN {CriticalAir}
    ELSE IF AirQualityResult.air_quality_index > 100000
    THEN Entries(AirQualityResult.recommendations)
    ELSE {}

RenewableAdvice ==
    IF EnergyResult.renewable_percentage < 30000 THEN {CriticalRenewable}
    ELSE IF EnergyResult.renewable_percentage < 60000 THEN {ModerateRenewable}
    ELSE {}

CoolingAdvice ==
    IF TemperatureResult.uhi_intensity > 4000 THEN {UrbanCooling} ELSE {}

\* C12: when all three models succeed, the recommendations of the complete
\* assessment are exactly the union of the heat string (critical above 27,
\* else moderate above 25), the air entry (critical above 150, else the air
\* model's own list above 100), the renewable string (critical below 30,
\* else moderate below 60) and the urban-cooling string (uhi above 4); each
\* string is held once and no other string is held.
C12_RecommendationsAreTheUnion ==
    AllThreeSucceeded
    => last.response.body.recommendations
         = HeatAdvice \cup AirAdvice \cup RenewableAdvice \cup CoolingAdvice

\* C12 witness: an assessment with an index between 100 and 150 whose
\* recommendations hold the air model's list next to the moderate heat
\* string, the critical renewable string and the urban-cooling string.
C12_Witness ==
    /\ AllThreeSucceeded
    /\ AirQualityResult.air_quality_index > 100000
    /\ AirQualityResult.air_quality_index <= 150000
    /\ Len(AirQualityResult.recommendations) >= 3
    /\ Entries(AirQualityResult.recommendations) \subseteq last.response.body.recommendations
    /\ ModerateHeat \in last.response.body.recommendations
    /\ CriticalRenewable \in last.response.body.recommendations
    /\ UrbanCooling \in last.response.body.recommendations
    /\ Cardinality(last.response.body.recommendations) = 6

\* result[name] of the test client succeeds.
Has(result, name) == name \in DOMAIN result

\* C13: every response of the complete assessment to a non-empty
\* configuration contains the fields the test client reads:
\* temperature.predicted_temperature, air_quality.air_quality_index,
\* energy.energy_balance, recommendations, and the overall score as the
\* top-level field overall_score.
C13_ClientFieldsPresent ==
    (Answered /\ last.endpoint = "complete" /\ IsMap /\ Truthy(last.data))
    => /\ Delivered
       /\ Has(last.response.body, "temperature")
       /\ Has(last.response.body.temperature, "predicted_temperature")
       /\ Has(last.response.body, "air_quality")
       /\ Has(last.response.body.air_quality, "air_quality_index")
       /\ Has(last.response.body, "energy")
       /\ Has(last.response.body.energy, "energy_balance")
       /\ Has(last.response.body, "recommendations")
       /\ Has(last.response.body, "overall_score")

\* The hour the request's configuration names.
HourOfDay == CfgGet(last.data.map, "hour_of_day", 12).v

\* The energy model produced a result for a configuration that names an
\* integer hour of the day.
EnergyAtNamedHour ==
    /\ HasEnergy
    /\ IsMap
    /\ EnergyResult.status = "success"
    /\ last.data.map["hour_of_day"].tag = "num"
    /\ HourOfDay \in 0..23

\* The bands as the specification lists them.
Bands ==
    {[hours |-> 18..22, multiplier |-> 1300],
     [hours |-> 6..9, multiplier |-> 1200],
     [hours |-> 10..16, multiplier |-> 1100],
     [hours |-> (0..5) \cup {17, 23}, multiplier |-> 800]}

BandsOf(hour) == {b \in Bands : hour \in b.hours}

\* C14: for every integer hour_of_day in 0..23 the energy model's
\* consumption_multiplier is 1.3 for hours 18..22, 1.2 for 6..9, 1.1 for
\* 10..16 and 0.8 for every other hour (17 and 23 among them); exactly one
\* band applies to the hour, and total_consumption is the base consumption
\* times that multiplier (reported to one decimal).
C14_MultiplierBands ==
    EnergyAtNamedHour
    => /\ Cardinality(BandsOf(HourOfDay)) = 1
       /\ \A b \in BandsOf(HourOfDay) :
             /\ EnergyResult.consumption_multiplier = b.multiplier
             /\ EnergyResult.total_consumption
                  = RoundTo(Scale(BaseConsumption(last.data.map),
                                  b.multiplier \div 100, 10), 100)

\* C14 witness: the energy model at hour 17, between the daytime and the
\* evening band, with multiplier 0.8 and a positive consumption.
C14_Witness ==
    /\ EnergyAtNamedHour
    /\ HourOfDay = 17
    /\ EnergyResult.consumption_multiplier = 800
    /\ EnergyResult.total_consumption = 64000

\* What a result's weather_conditions say of the observation it used.
Observation(weather_conditions) ==
    IF weather_conditions = NoneValue THEN NoneValue
    ELSE [wind_speed |-> weather_conditions.wind_speed,
          humidity |-> weather_conditions.humidity,
          status |-> weather_conditions.status]

\* C15: within one complete assessment the three models are computed from
\* one and the same weather observation: the weather_conditions
\* (wind_speed, humidity, status) inside the temperature, air_quality and
\* energy results of a single response are equal.
C15_OneWeatherObservation ==
    AllThreeSucceeded
    => /\ Observation(TemperatureResult.weather_conditions)
            = Observation(AirQualityResult.weather_conditions)
       /\ Observation(AirQualityResult.weather_conditions)
            = Observation(EnergyResult.weather_conditions)

====
